---- MODULE Spec2Model ----
(***************************************************************************)
(* TubeArchivist -> Emby metadata reconciliation (src/main.py).            *)
(*                                                                         *)
(* Text is modelled as sequences of one-character strings, JSON values as  *)
(* tagged records, Python dicts as records whose missing keys hold Absent. *)
(***************************************************************************)
EXTENDS Integers, Sequences, FiniteSets, TLC

(***************************************************************************)
(* JSON values and Python truthiness                                       *)
(***************************************************************************)
Absent == [t |-> "absent"]
Null == [t |-> "null"]
Str(s) == [t |-> "str", v |-> s]
Num(n) == [t |-> "int", v |-> n]
List(l) == [t |-> "list", v |-> l]
Dict(d) == [t |-> "dict", v |-> d]

\* dict.get(key, default): the default only replaces a missing key.
Get(d, k, default) == IF d[k] = Absent THEN default ELSE d[k]

\* Python's truth value of a JSON value: None, '', 0, [] and {} are false.
Truthy(x) ==
    CASE x.t = "null" -> FALSE
      [] x.t = "absent" -> FALSE
      [] x.t = "str" -> x.v # <<>>
      [] x.t = "int" -> x.v # 0
      [] x.t = "list" -> x.v # <<>>
      [] x.t = "dict" -> \E k \in DOMAIN x.v : x.v[k] # Absent

Rep(c, n) == [i \in 1..n |-> c]

(***************************************************************************)
(* Identifier resolver: _extract_youtube_id                                *)
(***************************************************************************)
KeyLen == 11

\* Members of the character class [a-zA-Z0-9_-] among the characters used.
IdChars == {"a", "b", "Z", "0", "1", "2", "3", "5", "9", "_", "-"}

\* Body applied to the value of e, e being evaluated once.
Let(e, Body(_)) == CHOOSE r \in {Body(v) : v \in {e}} : TRUE

\* re.match(r'^[a-zA-Z0-9_-]{11}$', s)
ReMatchId(s) == Len(s) = KeyLen /\ \A i \in 1..Len(s) : s[i] \in IdChars

\* re.findall(r'[a-zA-Z0-9_-]{11}', s): leftmost non-overlapping matches,
\* scanning from position i.
RECURSIVE FindAll(_, _)
FindAll(s, i) ==
    IF i + KeyLen - 1 > Len(s) THEN <<>>
    ELSE IF \A j \in i..(i + KeyLen - 1) : s[j] \in IdChars
         THEN <<SubSeq(s, i, i + KeyLen - 1)>> \o FindAll(s, i + KeyLen)
         ELSE FindAll(s, i + 1)

\* Position of the last occurrence of character c in s, 0 if none (str.rfind + 1).
RFind(s, c) ==
    LET hits == {i \in 1..Len(s) : s[i] = c}
    IN IF hits = {} THEN 0 ELSE CHOOSE i \in hits : \A j \in hits : j <= i

\* pathlib: Path(path).stem, the final component without its last suffix.
PathName(path) == SubSeq(path, RFind(path, "/") + 1, Len(path))
Stem(path) ==
    Let(PathName(path), LAMBDA name :
        Let(RFind(name, "."), LAMBDA dot :
            IF 1 < dot /\ dot < Len(name) THEN SubSeq(name, 1, dot - 1) ELSE name))

StartsWithHyphen(s) == Len(s) > 0 /\ s[1] = "-"
EndsWithHyphen(s) == Len(s) > 0 /\ s[Len(s)] = "-"

\* The loop over the filename matches: the first one with no hyphen at either end.
FirstQualifying(matches) ==
    LET ok == {i \in 1..Len(matches) :
                  ~StartsWithHyphen(matches[i]) /\ ~EndsWithHyphen(matches[i])}
    IN IF ok = {} THEN Null
       ELSE Str(matches[CHOOSE i \in ok : \A j \in ok : i <= j])

NoProviderIds == [YouTube |-> Absent]

extract_from_path(emby_item) ==
    LET path == Get(emby_item, "Path", Str(<<>>))
    IN IF Truthy(path)
       THEN Let(Stem(path.v), LAMBDA stem :
                Let(FindAll(stem, 1), LAMBDA matches : FirstQualifying(matches)))
       ELSE Null

extract_from_name(emby_item) ==
    LET item_name == Get(emby_item, "Name", Str(<<>>))
    IN IF Truthy(item_name) /\ Len(item_name.v) = KeyLen /\ ReMatchId(item_name.v)
       THEN item_name
       ELSE extract_from_path(emby_item)

extract_youtube_id(emby_item) ==
    LET provider_ids == Get(emby_item, "ProviderIds", Dict(NoProviderIds))
    IN IF provider_ids.v.YouTube # Absent
       THEN provider_ids.v.YouTube
       ELSE extract_from_name(emby_item)

(***************************************************************************)
(* Metadata mapper: _extract_year and the payload of                       *)
(* _update_emby_item_metadata                                              *)
(***************************************************************************)
Digits == <<"0", "1", "2", "3", "4", "5", "6", "7", "8", "9">>
IsDigit(c) == \E i \in 1..Len(Digits) : Digits[i] = c
DigitVal(c) == (CHOOSE i \in 1..Len(Digits) : Digits[i] = c) - 1

\* int() of four digit characters starting at position i.
Int4(s, i) ==
    DigitVal(s[i]) * 1000 + DigitVal(s[i + 1]) * 100 + DigitVal(s[i + 2]) * 10
        + DigitVal(s[i + 3])

FourDigitsAt(s, i) == i + 3 <= Len(s) /\ \A j \in i..(i + 3) : IsDigit(s[j])

\* re.search(r'(\d{4})', date_string): the first run of four digits, as an int.
regex_year(date_string) ==
    LET hits == {i \in 1..Len(date_string) : FourDigitsAt(date_string, i)}
    IN IF hits = {} THEN Null
       ELSE Num(Int4(date_string, CHOOSE i \in hits : \A j \in hits : i <= j))

MonthNames == {<<"M", "a", "y">>}

\* dateutil's parse(date_string).year on the shapes used here: a date that
\* leads with its year gives that year (year 0 is a ValueError); a month and
\* a day without a year are completed from today's date; anything else raises.
\* A raised error is None, by the except clause of _extract_year.
dateutil_year(date_string, today_year) ==
    IF FourDigitsAt(date_string, 1) /\ Len(date_string) >= 5 /\ date_string[5] = "-"
    THEN IF Int4(date_string, 1) = 0 THEN Null ELSE Num(Int4(date_string, 1))
    ELSE IF /\ Len(date_string) = 5
            /\ SubSeq(date_string, 1, 3) \in MonthNames
            /\ date_string[4] = " "
            /\ IsDigit(date_string[5])
         THEN Num(today_year)
         ELSE Null

extract_year(date_string, has_dateutil, today_year) ==
    IF ~Truthy(date_string) THEN Null
    ELSE IF has_dateutil THEN dateutil_year(date_string.v, today_year)
         ELSE regex_year(date_string.v)

MetaKeys == {"Name", "Overview", "Studios", "Tags", "PremiereDate", "ProductionYear",
             "ProviderIds"}

studios_of(ta_video) ==
    IF Truthy(Get(ta_video, "channel", Null))
    THEN List(<<Dict([Name |-> Get(ta_video.channel.v, "channel_name", Str(<<>>))])>>)
    ELSE List(<<>>)

\* The metadata dict as first built, every key present.
build_metadata(ta_video, has_dateutil, today_year) ==
    [Name |-> Get(ta_video, "title", Str(<<>>)),
     Overview |-> Get(ta_video, "description", Str(<<>>)),
     Studios |-> studios_of(ta_video),
     Tags |-> Get(ta_video, "tags", List(<<>>)),
     PremiereDate |-> Get(ta_video, "published", Null),
     ProductionYear |-> extract_year(Get(ta_video, "published", Null), has_dateutil,
                                     today_year),
     ProviderIds |-> Dict([YouTube |-> Get(ta_video, "youtube_id", Str(<<>>))])]

remove_nothing(metadata) == metadata

\* The filter written as "if v is not None".
remove_none_only(metadata) ==
    [k \in MetaKeys |-> IF metadata[k] # Null THEN metadata[k] ELSE Absent]

\* "Remove empty fields": {k: v for k, v in metadata.items() if v}
remove_empty(metadata) ==
    [k \in MetaKeys |-> IF Truthy(metadata[k]) THEN metadata[k] ELSE Absent]

\* The payload handed to EmbyClient.update_item_metadata.
payload_of(ta_video, has_dateutil, today_year) ==
    Let(build_metadata(ta_video, has_dateutil, today_year),
        LAMBDA metadata : remove_empty(metadata))

PatchKeys(patch) == {k \in MetaKeys : patch[k] # Absent}

(***************************************************************************)
(* Destination items the resolver is exercised on                          *)
(***************************************************************************)
Blank == " "
EdgeChars == {"a", "b", "-"}
MidParts == {Rep("a", KeyLen - 2),
             Rep("a", 4) \o <<Blank>> \o Rep("a", KeyLen - 7)}

\* Candidate tokens of 11 characters: valid ones, ones with a hyphen at an end,
\* ones holding a character outside the alphabet.
Candidates == {<<c1>> \o m \o <<c2>> : c1 \in EdgeChars, c2 \in EdgeChars, m \in MidParts}

IsMatchKey(s) == ReMatchId(s) /\ ~StartsWithHyphen(s) /\ ~EndsWithHyphen(s)
ValidKeys == {c \in Candidates : IsMatchKey(c)}

K1 == Rep("a", KeyLen)
K2 == <<"b">> \o Rep("a", KeyLen - 1)
K3 == Rep("a", KeyLen - 1) \o <<"b">>

Dir == <<"/", "y", "o", "u", "t", "u", "b", "e", ".", "d", "/">>
Ext == <<".", "m", "k", "v">>

TagValues == {Absent, Null, Str(<<>>), Str(<<"a", "b">>)} \cup {Str(c) : c \in Candidates}
NameValues == {Absent, Str(<<>>), Str(Rep("a", KeyLen + 1))} \cup {Str(c) : c \in Candidates}
StemValues ==
    Candidates
    \cup {<<p>> \o c : p \in {Blank, "a", "-"}, c \in ValidKeys}
    \cup {c \o <<Blank>> \o d : c \in {K1, <<"-">> \o Rep("a", KeyLen - 1)}, d \in ValidKeys}
    \cup {<<"a", "b">>, K1 \o <<".", "a">>}
PathValues == {Absent, Str(<<>>)} \cup {Str(Dir \o s \o Ext) : s \in StemValues}

ResolveItems ==
    {[Id |-> Str(<<"1">>), Name |-> n, Path |-> p, ProviderIds |-> Dict([YouTube |-> y])] :
        n \in NameValues, p \in PathValues, y \in TagValues}
    \cup {[Id |-> Str(<<"1">>), Name |-> n, Path |-> p, ProviderIds |-> Absent] :
        n \in NameValues, p \in PathValues}

(***************************************************************************)
(* Source paging: TubeArchivistClient.get_videos / get_all_videos          *)
(***************************************************************************)
\* The limit get_all_videos passes to get_videos (100 in the code, scaled).
PageSize == 2
\* The safety break "if page > 100" of get_all_videos (100 in the code, scaled).
PageCeiling == 3
\* Longest source catalog.
MaxVideos == 7

Min(a, b) == IF a <= b THEN a ELSE b
Max(a, b) == IF a >= b THEN a ELSE b
CeilDiv(a, b) == (a + b - 1) \div b

\* The records the source serves on page p with the requested limit.
Slice(catalog, p) ==
    SubSeq(catalog, (p - 1) * PageSize + 1, Min(p * PageSize, Len(catalog)))

LastPage(catalog) == Max(1, CeilDiv(Len(catalog), PageSize))

ResponseKinds == {"page", "nometa", "more", "fail"}

\* What get_videos returns for page p.  "page": the slice with its paginate
\* block; "nometa": the slice without a paginate block; "more": a non-empty
\* page that reports a further page whatever p is; "fail": the request raised
\* and get_videos returned {}.
get_videos(catalog, p, kind) ==
    CASE kind = "page" ->
           [data |-> List(Slice(catalog, p)),
            paginate |-> Dict([current_page |-> Num(p),
                               last_page |-> Num(LastPage(catalog))])]
      [] kind = "nometa" ->
           [data |-> List(Slice(catalog, p)), paginate |-> Absent]
      [] kind = "more" ->
           [data |-> List(IF Slice(catalog, p) # <<>> THEN Slice(catalog, p)
                          ELSE Slice(catalog, 1)),
            paginate |-> Dict([current_page |-> Num(p), last_page |-> Num(p + 1)])]
      [] kind = "fail" -> [data |-> Absent, paginate |-> Absent]

NoPaginate == [current_page |-> Absent, last_page |-> Absent]

reached_past_last_page(data, p) ==
    LET paginate_info == Get(data, "paginate", Dict(NoPaginate)).v
        last_page == Get(paginate_info, "last_page", Num(1)).v
        current_page == Get(paginate_info, "current_page", Num(p)).v
    IN current_page > last_page

\* "if current_page >= last_page" with the defaults of the two .get calls.
reached_last_page(data, p) ==
    LET paginate_info == Get(data, "paginate", Dict(NoPaginate)).v
        last_page == Get(paginate_info, "last_page", Num(1)).v
        current_page == Get(paginate_info, "current_page", Num(p)).v
    IN current_page >= last_page

no_page_limit(p) == FALSE

\* "if page > 100" after page += 1.
over_page_limit(p) == p > PageCeiling

(***************************************************************************)
(* Catalogs of the two services                                            *)
(***************************************************************************)
IsoDate == <<"2", "0", "2", "3", "-", "0", "5", "-", "0", "1", "T", "0", "0", ":",
             "0", "0", ":", "0", "0", "Z">>
ZeroDate == <<"0", "0", "0", "0", "-", "0", "1", "-", "0", "1">>
MonthDay == <<"M", "a", "y", " ", "1">>
BadDate == <<"n", "/", "a">>

Channel(name) == Dict([channel_id |-> Str(<<"U", "C">>), channel_name |-> name])
NoChannel == Dict([channel_id |-> Absent, channel_name |-> Absent])

\* The i-th record of the source: distinct titles; the first and third carry
\* identifiers of destination items, the second none, the rest an unknown one.
IdOfVideo(i) ==
    CASE i = 1 -> Str(K1) [] i = 2 -> Str(<<>>) [] i = 3 -> Str(K2) [] OTHER -> Str(K3)
Video(i) ==
    [youtube_id |-> IdOfVideo(i),
     title |-> Str(<<Digits[i + 1]>>),
     description |-> Absent,
     channel |-> Channel(Str(<<"C">>)),
     tags |-> List(<<>>),
     published |-> Str(IsoDate)]
Catalog(n) == [i \in 1..n |-> Video(i)]
CatalogSet == {Catalog(n) : n \in 0..MaxVideos}

DirUpper == <<"/", "Y", "o", "u", "T", "u", "b", "e", "/">>
PlainName == Str(<<"v">>)
Item1 == [Id |-> Str(<<"1">>), Name |-> PlainName, Path |-> Str(Dir \o <<"v">> \o Ext),
          ProviderIds |-> Dict([YouTube |-> Str(K1)])]
Item2 == [Id |-> Str(<<"2">>), Name |-> Str(K2), Path |-> Absent, ProviderIds |-> Absent]
Item3 == [Id |-> Str(<<"3">>), Name |-> PlainName, Path |-> Str(DirUpper \o K1 \o Ext),
          ProviderIds |-> Absent]
Item4 == [Id |-> Str(<<"4">>), Name |-> PlainName, Path |-> Str(Dir \o K2 \o Ext),
          ProviderIds |-> Dict([YouTube |-> Str(<<>>)])]
\* An item whose provider tag is not an identifier.
Item5 == [Id |-> Str(<<"5">>), Name |-> PlainName, Path |-> Str(Dir \o <<"v">> \o Ext),
          ProviderIds |-> Dict([YouTube |-> Str(<<"a", "b">>)])]
LibrarySet ==
    {<<>>, <<Item1, Item2>>, <<Item3, Item1, Item2>>, <<Item2, Item4>>, <<Item1, Item5>>}

LibraryId == Str(<<"L">>)

(***************************************************************************)
(* Destination listing: EmbyClient.get_library_id / get_library_items      *)
(***************************************************************************)
Lower(c) == CASE c = "Y" -> "y" [] c = "T" -> "t" [] c = "Z" -> "z" [] OTHER -> c
LowerStr(s) == [i \in 1..Len(s) |-> Lower(s[i])]
Contains(s, kw) ==
    \E i \in 1..(Len(s) - Len(kw) + 1) : SubSeq(s, i, i + Len(kw) - 1) = kw
Keywords == {<<"y", "o", "u", "t", "u", "b", "e">>,
             <<"t", "u", "b", "e", "a", "r", "c", "h", "i", "v", "i", "s", "t">>}

RECURSIVE SelectSeq2(_, _)
\* The members of items whose path holds one of the keywords, in order.
SelectSeq2(items, i) ==
    IF i > Len(items) THEN <<>>
    ELSE LET path == Get(items[i], "Path", Str(<<>>)).v
         IN (IF \E kw \in Keywords : Contains(LowerStr(path), kw)
             THEN <<items[i]>> ELSE <<>>) \o SelectSeq2(items, i + 1)

\* _get_library_items_alternative on a successful request.
library_items_alternative(all_items) == SelectSeq2(all_items, 1)

(***************************************************************************)
(* Library index and the write of one item                                 *)
(***************************************************************************)
RECURSIVE index_upto(_, _)
\* emby_by_youtube_id after the first n items of the loop: a later item with
\* the same identifier is assigned over the earlier one.
index_upto(items, n) ==
    IF n = 0 THEN <<>>
    ELSE Let(index_upto(items, n - 1), LAMBDA prev :
             Let(extract_youtube_id(items[n]), LAMBDA youtube_id :
                 IF Truthy(youtube_id)
                 THEN [k \in (DOMAIN prev) \cup {youtube_id.v} |->
                          IF k = youtube_id.v THEN items[n] ELSE prev[k]]
                 ELSE prev))

build_index(items) == index_upto(items, Len(items))

\* The item as Emby holds it after a successful POST /Items/{id}.
stored_item(item, payload) ==
    [item EXCEPT !.Name = IF payload.Name # Absent THEN payload.Name ELSE @,
                 !.ProviderIds = payload.ProviderIds]
apply_write(library, item_id, payload) ==
    [i \in 1..Len(library) |->
        IF library[i].Id = item_id THEN stored_item(library[i], payload) ELSE library[i]]

(***************************************************************************)
(* State                                                                   *)
(***************************************************************************)
\* The main thread (one-time sync, or the schedule loop of server mode) and
\* the thread of WebhookServer, which serves one request at a time.
Threads == {"main", "webhook"}

VARIABLES
    HAS_DATEUTIL,        \* module global set at import
    clock_year,          \* the calendar year of the host clock
    ta_catalog,          \* the records TubeArchivist holds
    api_kinds,           \* the ways TubeArchivist may answer a page request
    emby_library,        \* the items of the Emby library
    library_id,          \* EmbyClient.library_id, the cached library id
    http_response,       \* the last reply of WebhookHandler
    pc,                  \* per thread: where it is in sync_metadata
    probes,              \* per thread: ta_ok and emby_ok of test_connections
    page,                \* per thread: get_all_videos' page
    ta_videos,           \* per thread: all_videos, then sync_metadata's ta_videos
    emby_items,          \* per thread: the destination listing
    emby_by_youtube_id,  \* per thread: the index
    idx,                 \* per thread: position of the for loop over ta_videos
    updated_count,       \* per thread
    result,              \* per thread: what sync_metadata returned
    fetched,             \* per thread: the page requests of this pass, in order
    list_requests,       \* per thread: destination list requests of this pass
    attempts,            \* per thread: the destination writes of this pass, in order
    r_item, r_key, r_pc, \* one call of _extract_youtube_id
    p_video, p_item, p_first, p_second, p_pc   \* two calls of _update_emby_item_metadata

envVars == <<HAS_DATEUTIL, clock_year, ta_catalog, api_kinds, emby_library, library_id>>
passVars == <<http_response, pc, probes, page, ta_videos, emby_items, emby_by_youtube_id,
              idx, updated_count, result, fetched, list_requests, attempts>>
resolveVars == <<r_item, r_key, r_pc>>
patchVars == <<p_video, p_item, p_first, p_second, p_pc>>
vars == <<envVars, passVars, resolveVars, patchVars>>

ClockYears == {2026, 2027}

NoProbes == [ta_ok |-> FALSE, emby_ok |-> FALSE]

PassInit ==
    /\ http_response = Null
    /\ pc = [t \in Threads |-> "idle"]
    /\ probes = [t \in Threads |-> NoProbes]
    /\ page = [t \in Threads |-> 1]
    /\ ta_videos = [t \in Threads |-> <<>>]
    /\ emby_items = [t \in Threads |-> <<>>]
    /\ emby_by_youtube_id = [t \in Threads |-> <<>>]
    /\ idx = [t \in Threads |-> 1]
    /\ updated_count = [t \in Threads |-> 0]
    /\ result = [t \in Threads |-> Null]
    /\ fetched = [t \in Threads |-> <<>>]
    /\ list_requests = [t \in Threads |-> 0]
    /\ attempts = [t \in Threads |-> <<>>]

ResolveParked == r_item = Absent /\ r_key = Null /\ r_pc = "off"
PatchParked ==
    p_video = Absent /\ p_item = Absent /\ p_first = Absent /\ p_second = Absent
        /\ p_pc = "off"
EnvParked ==
    /\ HAS_DATEUTIL = TRUE
    /\ clock_year = 2026
    /\ ta_catalog = <<>>
    /\ api_kinds = {}
    /\ emby_library = <<>>
    /\ library_id = Null

(***************************************************************************)
(* sync_metadata, one step per request sent                                *)
(***************************************************************************)
\* sync_metadata is entered: a POST reached do_POST (webhook thread), or the
\* schedule fired or the one-time sync started (main thread).
Start(t) ==
    /\ pc[t] = "idle"
    /\ pc' = [pc EXCEPT ![t] = "verify"]
    /\ probes' = [probes EXCEPT ![t] = NoProbes]
    /\ page' = [page EXCEPT ![t] = 1]
    /\ ta_videos' = [ta_videos EXCEPT ![t] = <<>>]
    /\ emby_items' = [emby_items EXCEPT ![t] = <<>>]
    /\ emby_by_youtube_id' = [emby_by_youtube_id EXCEPT ![t] = <<>>]
    /\ idx' = [idx EXCEPT ![t] = 1]
    /\ updated_count' = [updated_count EXCEPT ![t] = 0]
    /\ result' = [result EXCEPT ![t] = Null]
    /\ fetched' = [fetched EXCEPT ![t] = <<>>]
    /\ list_requests' = [list_requests EXCEPT ![t] = 0]
    /\ attempts' = [attempts EXCEPT ![t] = <<>>]
    /\ UNCHANGED <<envVars, http_response, resolveVars, patchVars>>

connections_any(ta_ok, emby_ok) == ta_ok \/ emby_ok

\* "return ta_ok and emby_ok"
test_connections(ta_ok, emby_ok) == ta_ok /\ emby_ok

\* test_connections: both services are pinged; sync_metadata returns False
\* unless both answered 200.
Verify(t) ==
    /\ pc[t] = "verify"
    /\ \E ta_ok \in BOOLEAN, emby_ok \in BOOLEAN :
          /\ probes' = [probes EXCEPT ![t] = [ta_ok |-> ta_ok, emby_ok |-> emby_ok]]
          /\ IF test_connections(ta_ok, emby_ok)
             THEN pc' = [pc EXCEPT ![t] = "enumerate"] /\ UNCHANGED result
             ELSE /\ pc' = [pc EXCEPT ![t] = "returned"]
                  /\ result' = [result EXCEPT ![t] = FALSE]
    /\ UNCHANGED <<envVars, http_response, page, ta_videos, emby_items, emby_by_youtube_id,
                   idx, updated_count, fetched, list_requests, attempts, resolveVars,
                   patchVars>>

\* The loop over ta_videos entered straight after get_all_videos.
skip_to_apply(all_videos) == IF all_videos = <<>> THEN "returned" ELSE "apply"

\* Where sync_metadata goes when get_all_videos has returned all_videos.
after_enumeration(all_videos) == IF all_videos = <<>> THEN "returned" ELSE "list"

\* One iteration of the while loop of get_all_videos; on a break, the return
\* of get_all_videos and the "if not ta_videos: return False" of sync_metadata.
FetchPage(t) ==
    /\ pc[t] = "enumerate"
    /\ \E kind \in api_kinds :
          LET data == get_videos(ta_catalog, page[t], kind)
              videos == Get(data, "data", List(<<>>)).v
              all_videos == ta_videos[t] \o videos
              stop == \/ videos = <<>>
                      \/ reached_last_page(data, page[t])
                      \/ over_page_limit(page[t] + 1)
          IN /\ fetched' = [fetched EXCEPT ![t] = Append(@, [page |-> page[t], kind |-> kind])]
             /\ ta_videos' = [ta_videos EXCEPT ![t] = all_videos]
             /\ page' = [page EXCEPT ![t] =
                            IF videos = <<>> \/ reached_last_page(data, page[t])
                            THEN @ ELSE @ + 1]
             /\ pc' = [pc EXCEPT ![t] =
                          IF stop THEN after_enumeration(all_videos) ELSE "enumerate"]
             /\ result' = [result EXCEPT ![t] =
                              IF stop /\ all_videos = <<>> THEN FALSE ELSE @]
    /\ UNCHANGED <<envVars, http_response, probes, emby_items, emby_by_youtube_id, idx,
                   updated_count, list_requests, attempts, resolveVars, patchVars>>

\* get_library_items: the library id from the cache or from a VirtualFolders
\* request (found, or None when the request fails or names no such library),
\* then the listing under it, or the alternative listing without an id; a
\* failed listing is [].  An empty listing makes sync_metadata return False.
ListEmby(t) ==
    /\ pc[t] = "list"
    /\ \E found \in BOOLEAN, listed \in BOOLEAN :
          LET cached == library_id # Null
              id == IF cached THEN library_id ELSE IF found THEN LibraryId ELSE Null
              items == IF ~listed THEN <<>>
                       ELSE IF id # Null THEN emby_library
                       ELSE library_items_alternative(emby_library)
          IN /\ (cached => found)
             /\ library_id' = id
             /\ list_requests' = [list_requests EXCEPT ![t] = @ + (IF cached THEN 1 ELSE 2)]
             /\ emby_items' = [emby_items EXCEPT ![t] = items]
             /\ pc' = [pc EXCEPT ![t] = IF items = <<>> THEN "returned" ELSE "index"]
             /\ result' = [result EXCEPT ![t] = IF items = <<>> THEN FALSE ELSE @]
    /\ UNCHANGED <<HAS_DATEUTIL, clock_year, ta_catalog, api_kinds, emby_library,
                   http_response, probes, page, ta_videos, emby_by_youtube_id, idx,
                   updated_count, fetched, attempts, resolveVars, patchVars>>

\* The loop that fills emby_by_youtube_id.
BuildIndex(t) ==
    /\ pc[t] = "index"
    /\ emby_by_youtube_id' = [emby_by_youtube_id EXCEPT ![t] = build_index(emby_items[t])]
    /\ pc' = [pc EXCEPT ![t] = "apply"]
    /\ UNCHANGED <<envVars, http_response, probes, page, ta_videos, emby_items, idx,
                   updated_count, result, fetched, list_requests, attempts, resolveVars,
                   patchVars>>

\* "if not youtube_id: continue" and "if not emby_item: continue".
is_matched(video, index) ==
    /\ Truthy(Get(video, "youtube_id", Null))
    /\ Get(video, "youtube_id", Null).v \in DOMAIN index

count_every_attempt(ok) == 1

\* What the loop body adds to updated_count: 1 when the write succeeded.
count_update(ok) == IF ok THEN 1 ELSE 0

\* A record passed over ends the loop ("break" where the code has "continue").
break_after_skip(i, n, wrote, ok) == IF wrote THEN i + 1 ELSE n + 1

\* A failed write is sent again.
retry_failed(i, n, wrote, ok) == IF wrote /\ ~ok THEN i ELSE i + 1

\* A record passed over is looked at again (a while loop whose "continue"
\* skips the increment).
stay_on_skip(i, n, wrote, ok) == IF wrote THEN i + 1 ELSE i

\* The for loop moves to the next record whatever the iteration did: passed
\* the record over ("continue"), wrote it, or failed to write it.
next_video(i, n, wrote, ok) == i + 1

\* One iteration of the for loop over ta_videos: a record without an identifier
\* or without an indexed item is passed over; otherwise
\* _update_emby_item_metadata sends the payload (no request when the item has
\* no Id) and the write succeeds (200/204) or fails (other status, exception).
ApplyStep(t) ==
    /\ pc[t] = "apply"
    /\ idx[t] <= Len(ta_videos[t])
    /\ LET video == ta_videos[t][idx[t]]
           n == Len(ta_videos[t])
           passed_over ==
               /\ idx' = [idx EXCEPT ![t] = next_video(@, n, FALSE, FALSE)]
               /\ UNCHANGED <<attempts, updated_count, emby_library>>
       IN IF ~is_matched(video, emby_by_youtube_id[t])
          THEN passed_over
          ELSE LET emby_item == emby_by_youtube_id[t][video.youtube_id.v]
                   item_id == Get(emby_item, "Id", Null)
               IN IF ~Truthy(item_id)
                  THEN passed_over
                  ELSE \E ok \in BOOLEAN,
                          metadata \in {payload_of(video, HAS_DATEUTIL, clock_year)} :
                          /\ attempts' = [attempts EXCEPT ![t] =
                                Append(@, [video |-> idx[t], item_id |-> item_id,
                                           metadata |-> metadata, ok |-> ok])]
                          /\ updated_count' = [updated_count EXCEPT ![t] =
                                                  @ + count_update(ok)]
                          /\ emby_library' = IF ok
                                             THEN apply_write(emby_library, item_id, metadata)
                                             ELSE emby_library
                          /\ idx' = [idx EXCEPT ![t] = next_video(@, n, TRUE, ok)]
    /\ UNCHANGED <<HAS_DATEUTIL, clock_year, ta_catalog, api_kinds, library_id,
                   http_response, pc, probes, page, ta_videos, emby_items,
                   emby_by_youtube_id, result, fetched, list_requests, resolveVars,
                   patchVars>>

\* The pass has succeeded only if it updated something.
result_by_updates(updated) == updated > 0

\* "return True" after the summary line, whatever updated_count is.
completed_result(updated) == TRUE

\* The loop is over: the summary line is logged and sync_metadata returns True.
Summarize(t) ==
    /\ pc[t] = "apply"
    /\ idx[t] > Len(ta_videos[t])
    /\ pc' = [pc EXCEPT ![t] = "returned"]
    /\ result' = [result EXCEPT ![t] = completed_result(updated_count[t])]
    /\ UNCHANGED <<envVars, http_response, probes, page, ta_videos, emby_items,
                   emby_by_youtube_id, idx, updated_count, fetched, list_requests,
                   attempts, resolveVars, patchVars>>

\* What sync_metadata logs when it completes (main.py:610).
summary(t) == [updated |-> updated_count[t]]

\* Every reply carries status 200, the body alone telling success from error.
post_reply_always_200(success) ==
    [status |-> 200, body |-> IF success THEN "success" ELSE "error"]

\* The reply of do_POST to the result of sync_metadata.
post_reply(success) ==
    IF success THEN [status |-> 200, body |-> "success"]
    ELSE [status |-> 500, body |-> "error"]

\* The caller has the result: do_POST replies; the main thread drops it.
Finish(t) ==
    /\ pc[t] = "returned"
    /\ pc' = [pc EXCEPT ![t] = "idle"]
    /\ http_response' = IF t = "webhook" THEN post_reply(result[t]) ELSE http_response
    /\ UNCHANGED <<envVars, probes, page, ta_videos, emby_items, emby_by_youtube_id, idx,
                   updated_count, result, fetched, list_requests, attempts, resolveVars,
                   patchVars>>

\* do_GET: the health reply, served by the webhook thread between requests.
DoGet ==
    /\ pc["webhook"] = "idle"
    /\ http_response' = [status |-> 200, body |-> "running"]
    /\ UNCHANGED <<envVars, pc, probes, page, ta_videos, emby_items, emby_by_youtube_id,
                   idx, updated_count, result, fetched, list_requests, attempts,
                   resolveVars, patchVars>>

Pass(t) ==
    \/ Start(t)
    \/ Verify(t)
    \/ FetchPage(t)
    \/ ListEmby(t)
    \/ BuildIndex(t)
    \/ ApplyStep(t)
    \/ Summarize(t)
    \/ Finish(t)

\* Passes of the main thread alone: the one-time sync, or the schedule loop
\* while no notification arrives.
Init ==
    /\ HAS_DATEUTIL \in BOOLEAN
    /\ clock_year = 2026
    /\ ta_catalog \in CatalogSet
    /\ api_kinds = ResponseKinds
    /\ emby_library \in LibrarySet
    /\ library_id = Null
    /\ PassInit
    /\ ResolveParked
    /\ PatchParked

Next == Pass("main")

Spec == Init /\ [][Next]_vars

\* The one-time sync against every source catalog and every behaviour of the
\* source API, the library empty or holding three items.
FairInit ==
    /\ HAS_DATEUTIL = TRUE
    /\ clock_year = 2026
    /\ ta_catalog \in CatalogSet
    /\ api_kinds = ResponseKinds
    /\ emby_library \in {<<>>, <<Item3, Item1, Item2>>}
    /\ library_id = Null
    /\ PassInit
    /\ ResolveParked
    /\ PatchParked

\* Every network call of a pass carries a timeout (main.py:283-498), so a step
\* of the pass that can be taken is taken.
FairSpec == FairInit /\ [][Next]_vars /\ WF_vars(Next)

\* Server mode: the schedule loop on the main thread and the webhook listener
\* on its own thread, both calling sync_metadata of the one integration object.
ServerCatalogs == {Catalog(n) : n \in 1..3}
ServerInit ==
    /\ HAS_DATEUTIL = TRUE
    /\ clock_year = 2026
    /\ ta_catalog \in ServerCatalogs
    /\ api_kinds = {"page"}
    /\ emby_library = <<Item1, Item2>>
    /\ library_id = Null
    /\ PassInit
    /\ ResolveParked
    /\ PatchParked

ServerNext == (\E t \in Threads : Pass(t)) \/ DoGet

SpecServer == ServerInit /\ [][ServerNext]_vars

(***************************************************************************)
(* One call of _extract_youtube_id                                         *)
(***************************************************************************)
ResolveInit ==
    /\ r_item \in ResolveItems
    /\ r_key = Null
    /\ r_pc = "call"
    /\ EnvParked
    /\ PassInit
    /\ PatchParked

Resolve ==
    /\ r_pc = "call"
    /\ r_key' = extract_youtube_id(r_item)
    /\ r_pc' = "returned"
    /\ UNCHANGED <<r_item, envVars, passVars, patchVars>>

SpecResolve == ResolveInit /\ [][Resolve]_vars

(***************************************************************************)
(* Two calls of _update_emby_item_metadata on one record and one item      *)
(***************************************************************************)
PublishedValues ==
    {Absent, Null, Str(<<>>), Str(IsoDate), Str(ZeroDate), Str(MonthDay), Str(BadDate)}
ChannelValues ==
    {Absent, Null, NoChannel, Channel(Absent), Channel(Str(<<>>)), Channel(Str(<<"C">>))}
VideoSet ==
    [youtube_id : {Absent, Str(<<>>), Str(K1)},
     title : {Absent, Str(<<>>), Str(<<"T">>)},
     description : {Absent, Str(<<"D">>)},
     channel : ChannelValues,
     tags : {Absent, List(<<>>), List(<<Str(<<"t">>)>>)},
     published : PublishedValues]

ItemNoId == [Id |-> Absent, Name |-> PlainName, Path |-> Absent, ProviderIds |-> Absent]
PatchItems == {Item1, Item3, ItemNoId}

PatchInit ==
    /\ p_video \in VideoSet
    /\ p_item \in PatchItems
    /\ p_first = Absent
    /\ p_second = Absent
    /\ p_pc = "first"
    /\ HAS_DATEUTIL \in BOOLEAN
    /\ clock_year = 2026
    /\ ta_catalog = <<>>
    /\ api_kinds = {}
    /\ emby_library = <<>>
    /\ library_id = Null
    /\ PassInit
    /\ ResolveParked

\* _update_emby_item_metadata(p_item, p_video): nothing is sent for an item
\* without an Id; otherwise the payload is posted, and a successful write
\* changes the item as Emby holds it.
UpdateItem ==
    /\ p_pc \in {"first", "second"}
    /\ LET item_id == Get(p_item, "Id", Null)
           metadata == payload_of(p_video, HAS_DATEUTIL, clock_year)
           sent == IF Truthy(item_id) THEN metadata ELSE Absent
       IN /\ IF p_pc = "first"
             THEN p_first' = sent /\ UNCHANGED p_second
             ELSE p_second' = sent /\ UNCHANGED p_first
          /\ \E ok \in BOOLEAN :
                p_item' = IF ok /\ Truthy(item_id) THEN stored_item(p_item, metadata)
                          ELSE p_item
    /\ p_pc' = IF p_pc = "first" THEN "between" ELSE "done"
    /\ UNCHANGED <<p_video, envVars, passVars, resolveVars>>

\* Time passes between the two calls: later in the same pass, or a later pass.
Elapse ==
    /\ p_pc = "between"
    /\ clock_year' \in {y \in ClockYears : y >= clock_year}
    /\ p_pc' = "second"
    /\ UNCHANGED <<HAS_DATEUTIL, ta_catalog, api_kinds, emby_library, library_id, passVars,
                   resolveVars, p_video, p_item, p_first, p_second>>

PatchNext == UpdateItem \/ Elapse

SpecPatch == PatchInit /\ [][PatchNext]_vars

(***************************************************************************)
(* Properties of the passes                                                *)
(***************************************************************************)
Running(t) == pc[t] \notin {"idle", "returned"}

\* C1: at most one reconciliation pass is executing at any time in the
\* process: a pass requested while another runs never runs concurrently.
C1_OnePassAtATime == Cardinality({t \in Threads : Running(t)}) <= 1

\* The positions of the records the loop sends a write for, in order, among
\* the first n records.
RECURSIVE MatchedUpto(_, _, _)
MatchedUpto(videos, index, n) ==
    IF n = 0 THEN <<>>
    ELSE MatchedUpto(videos, index, n - 1)
            \o (IF /\ is_matched(videos[n], index)
                   /\ Truthy(Get(index[videos[n].youtube_id.v], "Id", Null))
                THEN <<n>> ELSE <<>>)

AttemptedVideos(t) == [i \in 1..Len(attempts[t]) |-> attempts[t][i].video]
OkAttempts(t) == {i \in 1..Len(attempts[t]) : attempts[t][i].ok}
FailedAttempts(t) == {i \in 1..Len(attempts[t]) : ~attempts[t][i].ok}
Completed(t) == pc[t] = "returned" /\ result[t] = TRUE

Verified(t) == pc[t] \notin {"idle", "verify"}
ProbeFailed(t) == Verified(t) /\ ~(probes[t].ta_ok /\ probes[t].emby_ok)

\* C3: when the liveness probe of either catalog fails, sync_metadata aborts:
\* it returns False without a page request, a destination list request or a
\* destination write.
C3_ProbeFailureAborts ==
    \A t \in Threads :
        ProbeFailed(t)
            => /\ pc[t] = "returned"
               /\ result[t] = FALSE
               /\ fetched[t] = <<>>
               /\ list_requests[t] = 0
               /\ attempts[t] = <<>>

\* A pass that returned after the Emby probe alone failed.
C3_Witness ==
    \E t \in Threads :
        pc[t] = "returned" /\ probes[t].ta_ok /\ ~probes[t].emby_ok

PageFailed(t) == \E i \in 1..Len(fetched[t]) : fetched[t][i].kind = "fail"

\* C4: a failed page request, on any page, aborts the pass: the records of the
\* earlier pages go no further and no destination request is made.
C4_PageFailureAborts ==
    \A t \in Threads :
        (pc[t] # "idle" /\ PageFailed(t))
            => /\ pc[t] = "returned"
               /\ result[t] = FALSE
               /\ list_requests[t] = 0
               /\ attempts[t] = <<>>

Enumerated(t) == pc[t] \in {"list", "index", "apply", "returned"} /\ fetched[t] # <<>>
LastFetch(t) == fetched[t][Len(fetched[t])]

\* The last page request was answered with a non-empty page and more to come.
MoreReported(t) ==
    /\ fetched[t] # <<>>
    /\ ta_catalog # <<>>
    /\ \/ LastFetch(t).kind = "more"
       \/ LastFetch(t).kind = "page" /\ LastFetch(t).page < LastPage(ta_catalog)

\* C5: get_all_videos ends whatever the source answers: the page requests of
\* a pass never outnumber the page ceiling, the loop is at page (requests + 1)
\* within the ceiling while it runs, and when the ceiling cuts off a source
\* that still reports more pages the records collected are kept and the pass
\* goes on to the destination listing.
C5_FetchesBoundedByCeiling ==
    \A t \in Threads :
        /\ Len(fetched[t]) <= PageCeiling
        /\ pc[t] = "enumerate" => (page[t] = Len(fetched[t]) + 1 /\ page[t] <= PageCeiling)
        /\ (Enumerated(t) /\ MoreReported(t))
              => /\ Len(fetched[t]) = PageCeiling
                 /\ ta_videos[t] # <<>>
                 /\ (pc[t] = "list" \/ list_requests[t] > 0)

\* A source that answered "more" on every page up to the ceiling, and the
\* pass now at the destination listing.
C5_Witness ==
    \E t \in Threads :
        /\ pc[t] = "list"
        /\ Len(fetched[t]) = PageCeiling
        /\ \A i \in 1..Len(fetched[t]) : fetched[t][i].kind = "more"
        /\ Len(ta_videos[t]) > Len(ta_catalog)

AllFetches(t, kind) == \A i \in 1..Len(fetched[t]) : fetched[t][i].kind = kind
PagesInOrder(t) == \A i \in 1..Len(fetched[t]) : fetched[t][i].page = i

C7_KeyHasNoHyphenEnds ==
    (r_pc = "returned" /\ r_key.t = "str")
        => (~StartsWithHyphen(r_key.v) /\ ~EndsWithHyphen(r_key.v))

\* The identifier each source of an item carries, when it carries a valid one.
TagOf(item) == Get(item, "ProviderIds", Dict(NoProviderIds)).v.YouTube
CarriesKey(x) == x.t = "str" /\ IsMatchKey(x.v)
FileKeyOf(item) ==
    IF Get(item, "Path", Str(<<>>)).t = "str"
    THEN FirstQualifying(FindAll(Stem(Get(item, "Path", Str(<<>>)).v), 1))
    ELSE Null
PriorityKey(item) ==
    IF CarriesKey(TagOf(item)) THEN TagOf(item)
    ELSE IF CarriesKey(Get(item, "Name", Null)) THEN item.Name
    ELSE FileKeyOf(item)

\* C8: an item that carries a valid 11-character identifier in its provider
\* tag, display name or filename resolves to exactly that identifier, the one
\* of the highest-priority source that carries one (tag, then name, then file).
C8_ResolvesByPriority ==
    (r_pc = "returned" /\ CarriesKey(PriorityKey(r_item)))
        => r_key = PriorityKey(r_item)

(***************************************************************************)
(* Properties of the metadata mapper                                       *)
(***************************************************************************)
\* A value that is none of: null, empty string, zero, empty collection.
NonEmpty(x) ==
    CASE x.t = "str" -> Len(x.v) > 0
      [] x.t = "int" -> x.v # 0
      [] x.t = "list" -> Len(x.v) > 0
      [] x.t = "dict" -> {k \in DOMAIN x.v : x.v[k] # Absent} # {}
      [] OTHER -> FALSE

SentPatches ==
    (IF p_pc \in {"between", "second", "done"} THEN {p_first} ELSE {})
        \cup (IF p_pc = "done" THEN {p_second} ELSE {})

\* C9: every key of a payload sent by _update_emby_item_metadata has a value
\* that is not an empty string, an empty collection, null or zero.
C9_NoEmptyField ==
    \A patch \in SentPatches :
        patch # Absent => \A k \in PatchKeys(patch) : NonEmpty(patch[k])

\* A payload from which empty Tags and a zero ProductionYear were dropped while
\* the title was kept.
C9_Witness ==
    /\ p_pc = "between"
    /\ p_first # Absent
    /\ p_video.tags = List(<<>>)
    /\ p_video.published = Str(ZeroDate)
    /\ ~HAS_DATEUTIL
    /\ PatchKeys(p_first) = {"Name", "PremiereDate", "ProviderIds"}

\* C10: the payload computed twice for the same record and item is the same,
\* whatever happened to the item and however much time passed in between.
C10_SamePatchTwice == p_pc = "done" => p_first = p_second

HasExternalId(video) == Truthy(Get(video, "youtube_id", Null))

\* The fields of the record whose computed values are not empty.
ComputedKeys(video) ==
    {k \in MetaKeys : NonEmpty(build_metadata(video, HAS_DATEUTIL, clock_year)[k])}

\* The record of the spec's scenario: a title, a published date, empty tags,
\* no description, no channel.
IsIntroRecord(video) ==
    /\ video.title = Str(<<"T">>)
    /\ video.published = Str(IsoDate)
    /\ video.tags = List(<<>>)
    /\ video.description = Absent
    /\ video.channel = Absent
    /\ video.youtube_id = Str(K1)

\* C11: the payload sent for a record with a non-empty youtube_id holds
\* ProviderIds.YouTube equal to it, and its keys are exactly the fields whose
\* computed values are not empty; the scenario record yields exactly Name,
\* PremiereDate, ProductionYear (2023) and ProviderIds, and no Tags.
C11_PatchKeysAndProviderId ==
    (p_pc = "between" /\ p_first # Absent /\ HasExternalId(p_video))
        => /\ p_first.ProviderIds = Dict([YouTube |-> p_video.youtube_id])
           /\ PatchKeys(p_first) = ComputedKeys(p_video)
           /\ IsIntroRecord(p_video)
                 => /\ PatchKeys(p_first)
                         = {"Name", "PremiereDate", "ProductionYear", "ProviderIds"}
                    /\ p_first.Name = Str(<<"T">>)
                    /\ p_first.ProductionYear = Num(2023)

\* The scenario record's payload has been sent.
C11_Witness ==
    /\ p_pc = "between"
    /\ p_first # Absent
    /\ IsIntroRecord(p_video)
    /\ "Tags" \notin PatchKeys(p_first)
    /\ p_first.ProviderIds.v.YouTube = Str(K1)

(***************************************************************************)
(* Properties of the applying loop                                         *)
(***************************************************************************)
\* The positions, among the first n records, of the records without an
\* identifier.
NoIdUpto(videos, n) == {i \in 1..n : ~HasExternalId(videos[i])}

\* The scenario of three source records: the second has an empty identifier,
\* the first and the third are in the index.
OneEmptyOfThree(t) ==
    /\ Len(ta_videos[t]) = 3
    /\ ~HasExternalId(ta_videos[t][2])
    /\ is_matched(ta_videos[t][1], emby_by_youtube_id[t])
    /\ is_matched(ta_videos[t][3], emby_by_youtube_id[t])

PostReplied == "body" \in DOMAIN http_response /\ http_response.body \in {"success", "error"}

PostReplyStep == pc["webhook"] = "returned" /\ pc'["webhook"] = "idle"

LastData(t) == get_videos(ta_catalog, LastFetch(t).page, LastFetch(t).kind)
LastVideos(t) == Get(LastData(t), "data", List(<<>>)).v
CeilingReached(t) == Len(fetched[t]) >= PageCeiling

\* C14: after a non-empty page the enumeration stops exactly when the reported
\* current page >= the reported last page or, for an answer without a
\* paginate block, when the page is shorter than the requested page size (a
\* full page makes it go on); the page ceiling aside.
C14_ContinuationRule ==
    \A t \in Threads :
        (fetched[t] # <<>> /\ LastVideos(t) # <<>> /\ ~CeilingReached(t))
            => LET stopped == pc[t] # "enumerate"
                   paginate == LastData(t).paginate
               IN IF paginate # Absent
                  THEN stopped <=> paginate.v.current_page.v >= paginate.v.last_page.v
                  ELSE stopped <=> Len(LastVideos(t)) < PageSize

(***************************************************************************)
(* Properties of the destination index                                     *)
(***************************************************************************)
IndexBuilt(t) == pc[t] = "apply" \/ (pc[t] = "returned" /\ list_requests[t] > 0
                                       /\ emby_items[t] # <<>>)

\* C15: every key of the destination index is 11 characters of the identifier
\* alphabet; a provider-tag value of another shape is never a key.
C15_IndexKeysAreMatchKeys ==
    \A t \in Threads :
        IndexBuilt(t) => \A k \in DOMAIN emby_by_youtube_id[t] : ReMatchId(k)

\* The first item of the listing that resolves to key k.
FirstSeen(items, k) ==
    items[CHOOSE i \in 1..Len(items) :
              /\ extract_youtube_id(items[i]) = Str(k)
              /\ \A j \in 1..(i - 1) : extract_youtube_id(items[j]) # Str(k)]

\* C16: the index holds, under each key, the first item of the listing that
\* resolves to it, and a write for a record goes to that item.
C16_IndexKeepsFirstSeen ==
    \A t \in Threads :
        IndexBuilt(t)
            => /\ \A k \in DOMAIN emby_by_youtube_id[t] :
                     emby_by_youtube_id[t][k] = FirstSeen(emby_items[t], k)
               /\ \A i \in 1..Len(attempts[t]) :
                     attempts[t][i].item_id
                        = FirstSeen(emby_items[t],
                                    ta_videos[t][attempts[t][i].video].youtube_id.v).Id

(***************************************************************************)
(* Properties of the mapped fields                                         *)
(***************************************************************************)
\* The record carries a channel object with a channel name that is not empty.
HasChannelName(video) ==
    /\ Truthy(Get(video, "channel", Null))
    /\ Truthy(Get(video.channel.v, "channel_name", Null))

\* C17: a payload has Studios only for a record whose channel name is not
\* empty, and then it has it.
C17_StudiosOnlyWithChannelName ==
    (p_pc = "between" /\ p_first # Absent)
        => ("Studios" \in PatchKeys(p_first) <=> HasChannelName(p_video))

\* The published value is a text no year can be read from.
Unparseable(video) ==
    /\ Truthy(Get(video, "published", Null))
    /\ extract_year(video.published, HAS_DATEUTIL, clock_year) = Null

\* C18: for a record whose published date cannot be parsed the payload is
\* still sent, has neither PremiereDate nor ProductionYear, and has its other
\* fields as for the same record with a parseable date.
C18_UnparseableDateOmitsBoth ==
    (p_pc = "between" /\ Truthy(Get(p_item, "Id", Null)) /\ Unparseable(p_video))
        => /\ p_first # Absent
           /\ "PremiereDate" \notin PatchKeys(p_first)
           /\ "ProductionYear" \notin PatchKeys(p_first)
           /\ \A k \in MetaKeys \ {"PremiereDate", "ProductionYear"} :
                 p_first[k]
                    = payload_of([p_video EXCEPT !.published = Str(IsoDate)],
                                 HAS_DATEUTIL, clock_year)[k]

(***************************************************************************)
(* Properties of the order of a pass                                       *)
(***************************************************************************)
\* The positions, among the records the loop has passed, of those whose
\* identifier is a key of the index.
KeyedSoFar(t) ==
    {k \in 1..(idx[t] - 1) :
        /\ HasExternalId(ta_videos[t][k])
        /\ ta_videos[t][k].youtube_id.v \in DOMAIN emby_by_youtube_id[t]}

StrictlyIncreasing(seq) == \A i \in 1..(Len(seq) - 1) : seq[i] < seq[i + 1]

\* C19: no write is attempted before both catalogs are enumerated and the
\* index is built from the listing; the attempts are then, one for one and in
\* source order, the records passed so far whose identifier is a key of the
\* index, each sent to the item the index holds for it.
C19_WritesAfterIndexInSourceOrder ==
    \A t \in Threads :
        /\ pc[t] \in {"verify", "enumerate", "list", "index"} => attempts[t] = <<>>
        /\ attempts[t] # <<>>
              => /\ fetched[t] # <<>>
                 /\ list_requests[t] > 0
                 /\ emby_by_youtube_id[t] = build_index(emby_items[t])
        /\ (pc[t] = "apply" \/ Completed(t))
              => /\ StrictlyIncreasing(AttemptedVideos(t))
                 /\ {AttemptedVideos(t)[i] : i \in 1..Len(attempts[t])} = KeyedSoFar(t)
                 /\ \A i \in 1..Len(attempts[t]) :
                       attempts[t][i].item_id
                          = emby_by_youtube_id[t][
                                ta_videos[t][attempts[t][i].video].youtube_id.v].Id

\* The loop at the fourth record, having written the first and the third and
\* passed the second over, the first write having failed.
C19_Witness ==
    \E t \in Threads :
        /\ pc[t] = "apply"
        /\ idx[t] = 4
        /\ AttemptedVideos(t) = <<1, 3>>
        /\ ~attempts[t][1].ok

\* The phase of the orchestrator's state machine a thread's pass is in.
PhaseOf(t) ==
    CASE pc[t] = "idle" -> "Idle"
      [] pc[t] = "verify" -> "VerifyingConnectivity"
      [] pc[t] \in {"enumerate", "list"} -> "Enumerating"
      [] pc[t] = "index" -> "Indexing"
      [] pc[t] = "apply" -> "Applying"
      [] pc[t] = "returned" -> IF result[t] = TRUE THEN "Summarizing" ELSE "Aborted"

Rank(phase) ==
    CASE phase = "Idle" -> 0
      [] phase = "VerifyingConnectivity" -> 1
      [] phase = "Enumerating" -> 2
      [] phase = "Indexing" -> 3
      [] phase = "Applying" -> 4
      [] phase \in {"Summarizing", "Aborted"} -> 5

\* A step keeps the phase, moves to the next one, or ends the pass.
InOrder(t) ==
    \/ PhaseOf(t)' = PhaseOf(t)
    \/ PhaseOf(t)' # "Aborted" /\ Rank(PhaseOf(t)') = Rank(PhaseOf(t)) + 1
    \/ PhaseOf(t)' = "Aborted" /\ PhaseOf(t) \in {"VerifyingConnectivity", "Enumerating"}
    \/ PhaseOf(t)' = "Idle" /\ PhaseOf(t) \in {"Summarizing", "Aborted"}

\* The destination list request failed: nothing came back from a library
\* that has items.
ListFailed(t) == list_requests[t] > 0 /\ emby_items[t] = <<>> /\ emby_library # <<>>

\* C20, as stated: the phases follow one another in order, and a pass is
\* aborted only by a failed probe or a failed request for a page of a
\* catalog.
C20_AbortOnlyOnFailure ==
    [][\A t \in Threads :
          /\ InOrder(t)
          /\ (PhaseOf(t)' = "Aborted" /\ PhaseOf(t) # "Aborted")
                => (ProbeFailed(t) \/ PageFailed(t) \/ ListFailed(t))']_vars

\* C20, amended: the phases follow one another in order, each entered at most
\* once in a pass, and a pass is aborted from VerifyingConnectivity when a
\* probe failed, or from Enumerating when the source enumeration returned no
\* record or the destination listing returned no item, be it that a request
\* failed or that the catalog is empty.
C20_PhasesInOrder ==
    [][\A t \in Threads :
          /\ InOrder(t)
          /\ (PhaseOf(t)' = "Aborted" /\ PhaseOf(t) # "Aborted")
                => \/ pc[t] = "verify" /\ ProbeFailed(t)'
                   \/ pc[t] = "enumerate" /\ ta_videos'[t] = <<>>
                   \/ pc[t] = "list" /\ emby_items'[t] = <<>>
          /\ (pc[t] = "verify" /\ ProbeFailed(t)') => PhaseOf(t)' = "Aborted"
          /\ (pc[t] = "enumerate" /\ pc'[t] # "enumerate" /\ ta_videos'[t] = <<>>)
                => PhaseOf(t)' = "Aborted"
          /\ (pc[t] = "list" /\ pc'[t] # "list" /\ emby_items'[t] = <<>>)
                => PhaseOf(t)' = "Aborted"]_vars

\* A pass aborted with both probes answered and no request failed: the source
\* catalog is empty.
C20_Witness ==
    \E t \in Threads :
        /\ pc[t] = "returned"
        /\ PhaseOf(t) = "Aborted"
        /\ ~ProbeFailed(t)
        /\ ~PageFailed(t)
        /\ fetched[t] # <<>>
        /\ ta_catalog = <<>>

(***************************************************************************)
(* Termination of a pass                                                   *)
(***************************************************************************)
\* C21: every started pass finishes: from any point of a pass, sync_metadata
\* returns and its caller is idle again, whatever the source answers and
\* whatever the listing holds.
C21_PassEventuallyFinishes ==
    \A t \in Threads : (pc[t] # "idle") ~> (pc[t] = "idle")

\* A pass is over that read a source reporting a further page on every
\* answer, up to the page ceiling.
C21_Witness ==
    \E t \in Threads :
        /\ pc[t] = "idle"
        /\ Len(fetched[t]) = PageCeiling
        /\ LastFetch(t).kind = "more"
        /\ attempts[t] # <<>>

(***************************************************************************)
(* The result of sync_metadata                                             *)
(***************************************************************************)
\* What makes sync_metadata return False: a failed probe, an empty source
\* list, an empty destination listing.
NothingToSync(t) ==
    \/ ~(probes[t].ta_ok /\ probes[t].emby_ok)
    \/ ta_videos[t] = <<>>
    \/ emby_items[t] = <<>>

\* C22: sync_metadata returns False exactly when a probe failed, the source
\* list is empty or the destination listing is empty, and then no write was
\* sent; otherwise it returns True, whatever became of its writes.
C22_ResultIgnoresWrites ==
    \A t \in Threads :
        pc[t] = "returned"
            => /\ result[t] \in BOOLEAN
               /\ result[t] = ~NothingToSync(t)
               /\ NothingToSync(t) => attempts[t] = <<>>

\* A pass returned True although each of its two writes failed.
C22_Witness ==
    \E t \in Threads :
        /\ pc[t] = "returned"
        /\ result[t] = TRUE
        /\ Len(attempts[t]) = 2
        /\ OkAttempts(t) = {}
        /\ updated_count[t] = 0

(***************************************************************************)
(* What a pass takes over from the pass before it                          *)
(***************************************************************************)
\* The pass has asked Emby for the items of the library.
Listed(t) == pc[t] \in {"index", "apply", "returned"} /\ list_requests[t] > 0

\* C23: a pass uses nothing obtained by an earlier pass: when it comes to the
\* destination listing the client holds no library id, and the listing is two
\* requests, the lookup of the library by name and the request for its items.
C23_EachPassResolvesAfresh ==
    \A t \in Threads :
        /\ pc[t] = "list" => library_id = Null
        /\ Listed(t) => list_requests[t] = 2

====
